---- MODULE Spec2Model ----
(***************************************************************************)
(* Model of the incremental market-breadth engine of Stock-Market-Monitor: *)
(* analyze_high_low_stocks.py (breadth computation, full backfill,         *)
(* incremental update) over db_utils.py (price-bar table, breadth table,   *)
(* status table).                                                          *)
(*                                                                         *)
(* Dates are calendar-day numbers; the 'YYYYMMDD' strings of the code are  *)
(* compared lexicographically, which is the order of the day numbers.      *)
(* The long windows of the code (52 and 26 weeks of 7 days, 20 bars of     *)
(* minimum history, 120 retained dates, 90 backfill days, 10 days of       *)
(* calendar slack) are scaled down; every scaled value is named below.     *)
(***************************************************************************)
EXTENDS Integers, Sequences, FiniteSets, TLC

\* ---------------------------------------------------------------- bounds
\* calendar days known to the provider: 1..MaxDay
MaxDay == 5
\* close prices are 1..MaxPrice
MaxPrice == 2
\* runs started in one behaviour
MaxRuns == 3
\* runs started in one behaviour of the specification of the breadth computation
BreadthRuns == 2
\* calls for the stock list, the calendar or a day's cross-section that fail
\* (an empty result after the retries) in one behaviour
MaxFaults == 1
\* calls for a stock's history that fail in one behaviour of the specification
\* of the breadth computation
MaxHistFaults == 1
\* calendar days per week (7 in the code: days = week_count * 7)
WeekDays == 1
\* the long window, in weeks (52 in the code)
LongWeeks == 4
\* the short window, in weeks (26 in the code)
ShortWeeks == 3
\* minimum number of bars of a usable history (20 in the code)
MinHist == 2
\* distinct trade dates kept by the retention prune (120 in the code)
KeepDays == 2
\* minimum backfill length of prepare_high_low_data (90 in the code)
MinBackfill == 2
\* extra calendar days asked of the calendar by the backfill (10 in the code)
CalSlack == 1

\* trade dates of the bars saved by direct calls of save_stock_daily_data:
\* 1..StoreDays
StoreDays == 3
\* rows of a batch passed to save_stock_daily_data
MaxBatch == 3
\* trade dates of the rows saved by direct calls of save_high_low_stats:
\* 1..StatDays
StatDays == 2
\* the counts saved by direct calls of save_high_low_stats: 0..MaxCount
MaxCount == 1

\* the greatest max_tries / max_retries argument of get_data_with_retry
MaxTries == 3
\* provider calls of one get_data_with_retry call that are counted; the
\* counter stays at this value when more calls are made
MaxCalls == 6

\* trading days of the window run_strategy asks the provider for
ScreenDays == 3
\* trade_days, the length of the new-high window (300 in the code)
TRADE_DAYS == 2
\* minimum length of the trend test (30 in the code)
MIN_UPTREND_DAYS == 2
\* window of the moving average of the trend test (20 in the code)
MaWindow == 2
\* days of the recent volatility (5 in the code)
RecentVolDays == 2
\* days of the short-term return (10 in the code)
RECENT_DAYS == 1
\* minimum number of bars of calculate_rebound_from_bottom (20 in the code)
MinReboundBars == 2
\* history_years * 250, the bars the rebound position looks back on
HistoryBars == 3
\* the greatest adjustment factor
MaxFactor == 2
\* market_value * 10000, the market-value floor
MARKET_VALUE_THRESHOLD == 2
\* rebound, the ceilings of the rebound position tried (0.4 in the code)
Ceilings == {<<0, 1>>, <<1, 2>>, <<1, 1>>}
\* the cap of the short-term return (0.15 in the code)
RECENT_RETURN_THRESHOLD == <<1, 2>>
\* volatility and recent_volatility, the thresholds of the trend test
\* (0.03 and 0.02 in the code)
Volatility == <<1, 1>>
RecentVolatility == <<1, 1>>

\* ---------------------------------------------------------------- basic sets
\* None: an unset status value, an empty MAX(trade_date)
NoDate == 0

Dates == 1..MaxDay

Prices == 1..MaxPrice

\* all_stocks, in the order of the stock list
StockList == <<"A.SZ", "B.BJ">>

Stocks == {StockList[i] : i \in 1..Len(StockList)}

\* ts_code.endswith('.SH') or ts_code.endswith('.SZ')
Cacheable(s) == s \in {"A.SZ"}

\* trade_cal(is_open='1'): the provider's calendar closes every third day
IsOpen(d) == d % 3 # 0

TradeDays == {d \in Dates : IsOpen(d)}

\* the days the provider's calendar covers: more than the days with quotes
CalendarEnd == 3 * (CalSlack + 2)

CalendarDays == 1..CalendarEnd

OpenDays == {d \in CalendarDays : IsOpen(d)}

RECURSIVE SortedSeq(_)
\* sorted(list): the ascending sequence of a set of dates
SortedSeq(S) ==
    IF S = {} THEN <<>>
    ELSE LET m == CHOOSE x \in S : \A y \in S : x <= y
         IN <<m>> \o SortedSeq(S \ {m})

SeqRange(q) == {q[i] : i \in 1..Len(q)}

MaxOf(S) == CHOOSE x \in S : \A y \in S : y <= x

MinOf(S) == CHOOSE x \in S : \A y \in S : x <= y

VARIABLES
    quotes,        \* provider: quotes[s][d] = close of s on d, 0 = no bar
    bars,          \* table stock_daily_data
    stats,         \* table high_low_stats
    status,        \* table db_status: last_update, last_full_update
    cacheChecked,  \* attributes cache_checked_{ts_code}_{start}_{end}
    dailyCache,    \* attributes daily_data_{trade_date}
    pc,            \* "idle" or "loop" (inside the per-day loop of a run)
    run,           \* the current (or last) run
    calc,          \* the two breadth computations of the last processed day
    runsLeft,      \* runs that may still be started
    faultsLeft,    \* calls for the stock list, the calendar or a day's
                   \* cross-section that may still fail
    histFaultsLeft, \* calls for a stock's history that may still fail
    dbcall,        \* the last call of a db_utils function made by a caller
                   \* outside the engine, with what it returned
    retry,         \* a call of get_data_with_retry in progress
    screen         \* a run of run_strategy: its inputs, the position of its
                   \* loop over the instruments, its selected list

vars == <<quotes, bars, stats, status, cacheChecked, dailyCache, pc, run, calc,
          runsLeft, faultsLeft, histFaultsLeft, dbcall, retry, screen>>

\* ---------------------------------------------------------------- provider
Bar(s, d, c) == [ts_code |-> s, trade_date |-> d, close |-> c]

\* pro.daily(ts_code=, start_date=, end_date=)
ProviderHistory(s, lo, hi) ==
    {Bar(s, d, quotes[s][d]) : d \in {x \in Dates : lo <= x /\ x <= hi /\ quotes[s][x] > 0}}

\* pro.daily(trade_date=)
ProviderDaily(T) ==
    {Bar(s, T, quotes[s][T]) : s \in {x \in Stocks : T \in Dates /\ quotes[x][T] > 0}}

\* ---------------------------------------------------------------- db_utils
get_stock_daily_data(db, s, lo, hi) ==
    {b \in db : b.ts_code = s /\ lo <= b.trade_date /\ b.trade_date <= hi}

\* mutant: every row of the batch is added (INSERT without OR IGNORE and
\* without the primary key)
AllRows(db, batch) == batch

\* rows of the batch that INSERT OR IGNORE adds
InsertedRows(db, batch) ==
    {b \in batch : ~ \E o \in db : o.ts_code = b.ts_code /\ o.trade_date = b.trade_date}

\* the batch carries a (ts_code, trade_date) twice: the INSERT into the
\* temporary table, which has the primary key, raises
HasDuplicateKey(batch) ==
    \E b1 \in batch, b2 \in batch :
        b1 # b2 /\ b1.ts_code = b2.ts_code /\ b1.trade_date = b2.trade_date

\* the price-bar table after save_stock_daily_data(df_daily); an exception
\* is caught before anything is committed
save_stock_daily_data(db, batch) ==
    IF HasDuplicateKey(batch) THEN db ELSE db \cup InsertedRows(db, batch)

\* mutant: the number of rows of the batch is returned
BatchSize(db, batch) == Cardinality(batch)

\* what save_stock_daily_data returns: cursor.rowcount of the INSERT OR
\* IGNORE, 0 for an empty batch and from the exception handler
SavedCount(db, batch) ==
    IF HasDuplicateKey(batch) THEN 0 ELSE Cardinality(InsertedRows(db, batch))

StatRow(T, h52, l52, h26, l26) ==
    [trade_date |-> T,
     high_count_52w |-> h52, low_count_52w |-> l52, net_high_52w |-> h52 - l52,
     high_count_26w |-> h26, low_count_26w |-> l26, net_high_26w |-> h26 - l26]

\* mutant: INSERT INTO high_low_stats without the primary key
AppendHighLowStats(st, T, h52, l52, h26, l26) ==
    st \cup {StatRow(T, h52, l52, h26, l26)}

\* REPLACE INTO high_low_stats
save_high_low_stats(st, T, h52, l52, h26, l26) ==
    {r \in st : r.trade_date # T} \cup {StatRow(T, h52, l52, h26, l26)}

StatDates(st) == {r.trade_date : r \in st}

\* mutant: SELECT MIN(trade_date)
EarliestTradeDateInDb(st) ==
    IF st = {} THEN NoDate ELSE MinOf(StatDates(st))

\* SELECT MAX(trade_date) FROM high_low_stats
get_latest_trade_date_in_db(st) ==
    IF st = {} THEN NoDate ELSE MaxOf(StatDates(st))

update_db_status(stt, key, value) == [stt EXCEPT ![key] = value]

get_db_status(stt, key) == stt[key]

BarDates(db) == {b.trade_date : b \in db}

\* dates_to_keep[-1]: the days_to_keep-th most recent distinct date
CutoffDate(db, keep) ==
    CHOOSE d \in BarDates(db) : Cardinality({x \in BarDates(db) : x >= d}) = keep

\* mutant: DELETE ... WHERE trade_date <= cutoff_date
ClearThroughCutoff(db, keep) ==
    IF Cardinality(BarDates(db)) <= keep \/ keep = 0 THEN db
    ELSE {b \in db : ~ (b.trade_date <= CutoffDate(db, keep))}

\* the price-bar table after clear_old_stock_data(days_to_keep); with
\* days_to_keep = 0 dates_to_keep is empty, dates_to_keep[-1] raises and the
\* handler returns
clear_old_stock_data(db, keep) ==
    IF Cardinality(BarDates(db)) <= keep \/ keep = 0 THEN db
    ELSE {b \in db : ~ (b.trade_date < CutoffDate(db, keep))}

\* what clear_old_stock_data returns: cursor.rowcount of the DELETE, 0 from
\* the early return and from the exception handler
DeletedCount(db, keep) == Cardinality(db \ clear_old_stock_data(db, keep))

EmptyStatus == [last_update |-> NoDate, last_full_update |-> NoDate]

\* ---------------------------------------------------------------- history
\* get_stock_price_data: [data, db, cc, api] = the history returned, the
\* price-bar table and the cache marks after the call, whether the provider
\* was asked. apiOK = the provider call returns its data (not an empty frame).
get_stock_price_data(db, cc, s, lo, hi, apiOK) ==
    LET df_db == get_stock_daily_data(db, s, lo, hi)
        key == <<s, lo, hi>>
        df_api == IF apiOK THEN ProviderHistory(s, lo, hi) ELSE {}
    IN  IF df_db # {} /\ Cardinality(df_db) >= MinHist
        THEN [data |-> df_db, db |-> db, cc |-> cc, api |-> FALSE]
        ELSE IF key \in cc
        THEN [data |-> df_db, db |-> db, cc |-> cc, api |-> FALSE]
        ELSE [data |-> df_api,
              db |-> IF df_api # {} /\ Cacheable(s)
                     THEN save_stock_daily_data(db, df_api) ELSE db,
              cc |-> cc \cup {key},
              api |-> TRUE]

\* ---------------------------------------------------------------- breadth
Closes(h) == {b.close : b \in h}

\* mutant: the length is taken after the day's own bar is removed
EnoughHistoryBeforeT(raw, T) ==
    Cardinality({b \in raw : b.trade_date < T}) >= MinHist

\* hist_data.empty or len(hist_data) < 20 is the skip; this is its negation
\* (the length is taken before the day's own bar is removed)
EnoughHistory(raw, T) == raw # {} /\ ~ (Cardinality(raw) < MinHist)

\* mutant: the day's own bar stays in the comparison set
HistUpTo(raw, T) == {b \in raw : b.trade_date <= T}

\* hist_data[hist_data['trade_date'] < trade_date]
HistBefore(raw, T) == {b \in raw : b.trade_date < T}

\* mutant: a tie with the trailing maximum counts as a new high
IsNewHighOrTie(cur, hist) == cur >= MaxOf(Closes(hist))

\* current_close > hist_high_close
IsNewHigh(cur, hist) == cur > MaxOf(Closes(hist))

\* current_close < hist_low_close
IsNewLow(cur, hist) == cur < MinOf(Closes(hist))

\* what the loop did with one stock: traded = it has a bar in daily_data,
\* asked = get_stock_price_data was called, raw = the history it returned,
\* hist = the comparison set, compared = the comparison was reached
NoEval == [traded |-> FALSE, cur |-> 0, asked |-> FALSE, api |-> FALSE,
           failed |-> FALSE, raw |-> {}, hist |-> {}, compared |-> FALSE,
           high |-> FALSE, low |-> FALSE]

\* the body of the loop over the stocks for stock s
StockStep(acc, T, lo, s, daily, apiOK) ==
    LET today == {b \in daily : b.ts_code = s}
    IN  IF today = {} THEN acc
        ELSE
        LET cur == (CHOOSE b \in today : TRUE).close
            g == get_stock_price_data(acc.db, acc.cc, s, lo, T, apiOK)
            hist == IF EnoughHistory(g.data, T) THEN HistBefore(g.data, T) ELSE {}
            compared == EnoughHistory(g.data, T) /\ hist # {}
            isHigh == compared /\ IsNewHigh(cur, hist)
            isLow == compared /\ IsNewLow(cur, hist)
        IN  [db |-> g.db, cc |-> g.cc,
             nfail |-> acc.nfail + (IF g.api /\ ~ apiOK THEN 1 ELSE 0),
             high_count |-> acc.high_count + (IF isHigh THEN 1 ELSE 0),
             low_count |-> acc.low_count + (IF isLow THEN 1 ELSE 0),
             eval |-> [acc.eval EXCEPT ![s] =
                         [traded |-> TRUE, cur |-> cur, asked |-> TRUE, api |-> g.api,
                          failed |-> g.api /\ ~ apiOK, raw |-> g.data, hist |-> hist,
                          compared |-> compared, high |-> isHigh, low |-> isLow]]]

RECURSIVE StockLoopUntilFailure(_, _, _, _, _, _)
\* mutant: the loop over the stocks ends with the first failed history call
StockLoopUntilFailure(acc, T, lo, i, daily, histFail) ==
    IF i > Len(StockList) \/ acc.nfail > 0 THEN acc
    ELSE StockLoopUntilFailure(
             StockStep(acc, T, lo, StockList[i], daily, StockList[i] \notin histFail),
             T, lo, i + 1, daily, histFail)

RECURSIVE StockLoop(_, _, _, _, _, _)
\* for _, stock in batch_stocks.iterrows(), from position i of the stock list
StockLoop(acc, T, lo, i, daily, histFail) ==
    IF i > Len(StockList) THEN acc
    ELSE StockLoop(StockStep(acc, T, lo, StockList[i], daily, StockList[i] \notin histFail),
                   T, lo, i + 1, daily, histFail)

\* calculate_high_low_for_date(pro, trade_date, week_count, all_stocks).
\* dailyOK = the provider returns the day's cross-section when asked,
\* histFail = the stocks whose history call, if made, returns nothing.
calculate_high_low_for_date(db, cc, dc, T, week_count, dailyOK, histFail) ==
    LET days == week_count * WeekDays
        start_date == T - days
        cached == T \in dc
        daily_data == IF cached \/ dailyOK THEN ProviderDaily(T) ELSE {}
        acc0 == [db |-> db, cc |-> cc, nfail |-> IF ~ cached /\ ~ dailyOK THEN 1 ELSE 0,
                 high_count |-> 0, low_count |-> 0,
                 eval |-> [s \in Stocks |-> NoEval]]
    IN  IF daily_data = {}
        THEN [T |-> T, week_count |-> week_count, start_date |-> start_date,
              ok |-> FALSE, dc |-> dc] @@ acc0
        ELSE [T |-> T, week_count |-> week_count, start_date |-> start_date,
              ok |-> TRUE, dc |-> dc \cup {T}]
             @@ StockLoop(acc0, T, start_date, 1, daily_data, histFail)

NoCalc == [T |-> NoDate, week_count |-> 0, start_date |-> NoDate, ok |-> FALSE,
           dc |-> {}, db |-> {}, cc |-> {}, nfail |-> 0, high_count |-> 0,
           low_count |-> 0, eval |-> [s \in Stocks |-> NoEval]]

\* the part of a computation that is kept for inspection
CalcView(c) == [T |-> c.T, week_count |-> c.week_count, start_date |-> c.start_date,
                ok |-> c.ok, high_count |-> c.high_count, low_count |-> c.low_count,
                eval |-> c.eval]

\* no day has been processed in the run
NoCalcs == [long |-> CalcView(NoCalc), short |-> CalcView(NoCalc)]

\* ---------------------------------------------------------------- calendar
\* get_trade_dates(pro, start_date, end_date); calOK = the calendar call
\* returns its data
\* mutant: start_date is not passed on to the calendar
TradeDatesUpTo(lo, hi, calOK) ==
    IF calOK THEN SortedSeq({d \in OpenDays : d <= hi}) ELSE <<>>

get_trade_dates(lo, hi, calOK) ==
    IF calOK THEN SortedSeq({d \in OpenDays : lo <= d /\ d <= hi}) ELSE <<>>

\* trade_dates[-days:] if len(trade_dates) >= days else trade_dates
RecentDates(trade_dates, days) ==
    IF Len(trade_dates) >= days
    THEN SubSeq(trade_dates, Len(trade_dates) - days + 1, Len(trade_dates))
    ELSE trade_dates

\* ---------------------------------------------------------------- runs
NoRun == [via |-> "none", kind |-> "none", end |-> NoDate, force |-> FALSE,
          queue |-> <<>>, written |-> <<>>, preLU |-> NoDate,
          base |-> NoDate, result |-> "none", pruned |-> FALSE,
          fault |-> "none", deleted |-> 0]

\* the record of a run that starts now
NewRun(via, kind, end, force) ==
    [via |-> via, kind |-> kind, end |-> end, force |-> force,
     queue |-> <<>>, written |-> <<>>, preLU |-> get_db_status(status, "last_update"),
     base |-> get_latest_trade_date_in_db(stats), result |-> "running",
     pruned |-> FALSE, fault |-> "none", deleted |-> 0]

\* recreate_tables(): every table is dropped and created empty
recreate_tables(rebuild, table, empty) == IF rebuild THEN empty ELSE table

\* initial_data_load up to its loop. fault names the provider call that
\* returns nothing: "stocks" (get_all_stocks), "calendar" (get_trade_dates).
InitialStart(via, end, days, force, rebuild, fault) ==
    LET r == [NewRun(via, "initial", end, force) EXCEPT !.fault = fault]
        trade_dates == get_trade_dates(end - (days + CalSlack), end, fault # "calendar")
        recent_trade_dates == RecentDates(trade_dates, days)
    IN  /\ bars' = recreate_tables(rebuild, bars, {})
        /\ stats' = recreate_tables(rebuild, stats, {})
        /\ status' = recreate_tables(rebuild, status, EmptyStatus)
        /\ faultsLeft' = faultsLeft - (IF fault = "none" THEN 0 ELSE 1)
        /\ IF fault = "stocks" \/ trade_dates = <<>>
           THEN /\ pc' = "idle"
                /\ run' = [r EXCEPT !.result = "False"]
           ELSE /\ pc' = "loop"
                /\ run' = [r EXCEPT !.queue = recent_trade_dates]
        /\ calc' = NoCalcs
        /\ UNCHANGED <<quotes, retry, screen, dbcall, cacheChecked, dailyCache, histFaultsLeft>>

\* mutant: the update restarts on last_date itself
ResumeAtLastDate(st) == get_latest_trade_date_in_db(st)

\* where incremental_update resumes: the day after last_date
ResumeDate(st) == get_latest_trade_date_in_db(st) + 1

\* incremental_update up to its loop
IncrementalStart(via, end, force, fault) ==
    LET r == [NewRun(via, "incremental", end, force) EXCEPT !.fault = fault]
        last_date == get_latest_trade_date_in_db(stats)
        start_date == ResumeDate(stats)
        trade_dates == get_trade_dates(start_date, end, fault # "calendar")
    IN  /\ IF last_date = NoDate
           THEN /\ fault = "none"
                /\ pc' = "idle"
                /\ run' = [r EXCEPT !.result = "False"]
           ELSE IF start_date > end
           THEN /\ fault = "none"
                /\ pc' = "idle"
                /\ run' = [r EXCEPT !.result = "True"]
           ELSE IF trade_dates = <<>>
           THEN /\ fault # "stocks"
                /\ pc' = "idle"
                /\ run' = [r EXCEPT !.result = "True"]
           ELSE IF fault = "stocks"
           THEN /\ pc' = "idle"
                /\ run' = [r EXCEPT !.result = "False"]
           ELSE /\ pc' = "loop"
                /\ run' = [r EXCEPT !.queue = trade_dates]
        /\ faultsLeft' = faultsLeft - (IF fault = "none" THEN 0 ELSE 1)
        /\ calc' = NoCalcs
        /\ UNCHANGED <<quotes, retry, screen, dbcall, bars, stats, status, cacheChecked, dailyCache,
                       histFaultsLeft>>

Max2(a, b) == IF a >= b THEN a ELSE b

\* mutant: the first-run branch is never taken
NeverFirstRun(last_update) == FALSE

\* if not last_update: the first run, which backfills
IsFirstRun(last_update) == last_update = NoDate

\* force_update or not last_update or last_update < end_date
NeedsUpdate(last_update, end, force) ==
    force \/ last_update = NoDate \/ last_update < end

\* prepare_high_low_data up to the loop of the run it starts
PrepareStart(end, days, force, rebuild, fault) ==
    LET last_update == get_db_status(status, "last_update")
    IN  IF NeedsUpdate(last_update, end, force)
        THEN IF IsFirstRun(last_update)
             THEN InitialStart("prepare", end, Max2(days, MinBackfill), force, rebuild, fault)
             ELSE IncrementalStart("prepare", end, force, fault)
        ELSE /\ fault = "none"
             /\ pc' = "idle"
             /\ run' = [NewRun("prepare", "none", end, force) EXCEPT !.result = "True"]
             /\ calc' = NoCalcs
             /\ UNCHANGED <<quotes, retry, screen, dbcall, bars, stats, status, cacheChecked, dailyCache,
                            faultsLeft, histFaultsLeft>>

\* the days arguments tried
DayArgs == {1, MinBackfill + 1}

FaultKinds == {"none", "stocks", "calendar"}

CanStart(fault) ==
    /\ pc = "idle"
    /\ runsLeft > 0
    /\ fault \in FaultKinds
    /\ fault # "none" => faultsLeft > 0

PrepareHighLowData ==
    \E end \in Dates, days \in DayArgs, force \in BOOLEAN, rebuild \in BOOLEAN,
       fault \in FaultKinds :
        /\ CanStart(fault)
        /\ runsLeft' = runsLeft - 1
        /\ PrepareStart(end, days, force, rebuild, fault)

\* a days argument above the minimum backfill
BackfillDays == 2 * CalSlack + 3

\* prepare_high_low_data(end_date, days = BackfillDays) with any end date of
\* the calendar
PrepareLongBackfill ==
    \E end \in CalendarDays, force \in BOOLEAN, rebuild \in BOOLEAN :
        /\ CanStart("none")
        /\ runsLeft' = runsLeft - 1
        /\ PrepareStart(end, BackfillDays, force, rebuild, "none")

InitialDataLoad ==
    \E end \in Dates, days \in DayArgs, rebuild \in BOOLEAN, fault \in FaultKinds :
        /\ CanStart(fault)
        /\ runsLeft' = runsLeft - 1
        /\ InitialStart("initial", end, days, FALSE, rebuild, fault)

IncrementalUpdate ==
    \E end \in Dates, fault \in FaultKinds :
        /\ CanStart(fault)
        /\ runsLeft' = runsLeft - 1
        /\ IncrementalStart("incremental", end, FALSE, fault)

\* the provider calls of one day that return nothing: the day's cross-section
\* asked by the long (d52) and by the short (d26) computation, the histories
\* of the stocks in h52 and h26
DailyFaultCount(f) == (IF f.d52 THEN 1 ELSE 0) + (IF f.d26 THEN 1 ELSE 0)

HistFaultCount(f) == Cardinality(f.h52) + Cardinality(f.h26)

DayFaults(n, m) ==
    {f \in [d52 : BOOLEAN, d26 : BOOLEAN, h52 : SUBSET Stocks, h26 : SUBSET Stocks] :
        DailyFaultCount(f) <= n /\ HistFaultCount(f) <= m}

\* one iteration of the loop over the trading days of a run: both windows
\* are computed, then the day's row is saved; the code does not touch
\* db_status here (advance = FALSE)
DayStep(advance) ==
    /\ pc = "loop"
    /\ run.queue # <<>>
    /\ \E f \in DayFaults(faultsLeft, histFaultsLeft) :
        \E c52 \in {calculate_high_low_for_date(bars, cacheChecked, dailyCache,
                          Head(run.queue), LongWeeks, ~ f.d52, f.h52)} :
        \E c26 \in {calculate_high_low_for_date(c52.db, c52.cc, c52.dc,
                          Head(run.queue), ShortWeeks, ~ f.d26, f.h26)} :
        LET trade_date == Head(run.queue)
        IN  /\ c52.nfail + c26.nfail = DailyFaultCount(f) + HistFaultCount(f)
            /\ faultsLeft' = faultsLeft - DailyFaultCount(f)
            /\ histFaultsLeft' = histFaultsLeft - HistFaultCount(f)
            /\ bars' = c26.db
            /\ cacheChecked' = c26.cc
            /\ dailyCache' = c26.dc
            /\ stats' = save_high_low_stats(stats, trade_date, c52.high_count,
                                            c52.low_count, c26.high_count, c26.low_count)
            /\ calc' = [long |-> CalcView(c52), short |-> CalcView(c26)]
            /\ run' = [run EXCEPT !.queue = Tail(@), !.written = Append(@, trade_date)]
    /\ status' = IF advance
                 THEN update_db_status(status, "last_update", Head(run.queue))
                 ELSE status
    /\ UNCHANGED <<quotes, retry, screen, dbcall, pc, runsLeft>>

\* mutant: the loop advances last_update after each day
ProcessDayAdvancing == DayStep(TRUE)

\* the body of the loops of initial_data_load and incremental_update
ProcessDay == DayStep(FALSE)

\* mutant: last_full_update is not written
InitialStatusLastOnly(stt, end) == update_db_status(stt, "last_update", end)

\* the status written after the loop of initial_data_load
InitialStatus(stt, end) ==
    update_db_status(update_db_status(stt, "last_full_update", end), "last_update", end)

\* the status written after the loop of incremental_update
IncrementalStatus(stt, end) == update_db_status(stt, "last_update", end)

\* after the loop (done = the loop has taken every day): the status is
\* written, the price-bar table is pruned and the run returns True
FinishWhen(done) ==
    /\ pc = "loop"
    /\ done
    /\ status' = IF run.kind = "initial" THEN InitialStatus(status, run.end)
                 ELSE IncrementalStatus(status, run.end)
    /\ bars' = clear_old_stock_data(bars, KeepDays)
    /\ pc' = "idle"
    /\ run' = [run EXCEPT !.result = "True", !.pruned = TRUE,
                           !.deleted = DeletedCount(bars, KeepDays)]
    /\ UNCHANGED <<quotes, retry, screen, dbcall, stats, cacheChecked, dailyCache, calc, runsLeft, faultsLeft,
                   histFaultsLeft>>

\* mutant: the loop is left, and the tail of the run executed, after any day
FinishRunAnytime == FinishWhen(TRUE)

FinishRun == FinishWhen(run.queue = <<>>)

\* the process is killed inside the loop: the tables keep what was committed,
\* the function attributes are lost with the process
Abort ==
    /\ pc = "loop"
    /\ pc' = "idle"
    /\ run' = [run EXCEPT !.result = "aborted"]
    /\ cacheChecked' = {}
    /\ dailyCache' = {}
    /\ UNCHANGED <<quotes, retry, screen, dbcall, bars, stats, status, calc, runsLeft, faultsLeft,
                   histFaultsLeft>>

\* the next run is started by a new process: the function attributes are gone
Restart ==
    /\ pc = "idle"
    /\ runsLeft > 0
    /\ cacheChecked # {} \/ dailyCache # {}
    /\ cacheChecked' = {}
    /\ dailyCache' = {}
    /\ UNCHANGED <<quotes, retry, screen, dbcall, bars, stats, status, pc, run, calc, runsLeft, faultsLeft,
                   histFaultsLeft>>

\* no db_utils function has been called from outside the engine; before is
\* the table the call found
NoCall == [op |-> "none", batch |-> {}, row |-> <<>>, keep |-> 0, count |-> 0,
           prev |-> -1, before |-> {}]

\* the bars direct calls save: one stock, any close on the first dates
StoreBars == {Bar("A.SZ", d, c) : d \in 1..StoreDays, c \in Prices}

\* the frames passed to save_stock_daily_data; a frame may carry a key twice
Batches == {b \in SUBSET StoreBars : Cardinality(b) <= MaxBatch}

\* (high_count, low_count) of one window: no stock is both
CountPairs == {p \in (0..MaxCount) \X (0..MaxCount) : p[1] + p[2] <= MaxCount}

\* prev of a call: what the call before it returned when that was the same
\* function with the same argument, else -1
PrevCount(op, batch, row, keep) ==
    IF dbcall.op = op /\ dbcall.batch = batch /\ dbcall.row = row /\ dbcall.keep = keep
    THEN dbcall.count ELSE -1

\* a caller saves a frame of bars
SaveStockDailyData ==
    \E batch \in Batches :
        /\ pc = "idle"
        /\ bars' = save_stock_daily_data(bars, batch)
        /\ dbcall' = [op |-> "save_stock_daily_data", batch |-> batch, row |-> <<>>,
                      keep |-> 0, count |-> SavedCount(bars, batch),
                      prev |-> PrevCount("save_stock_daily_data", batch, <<>>, 0),
                      before |-> bars]
        /\ UNCHANGED <<quotes, retry, screen, stats, status, cacheChecked, dailyCache, pc, run, calc,
                       runsLeft, faultsLeft, histFaultsLeft>>

\* a caller prunes the price-bar table
ClearOldStockData ==
    \E keep \in 0..StoreDays :
        /\ pc = "idle"
        /\ bars' = clear_old_stock_data(bars, keep)
        /\ dbcall' = [op |-> "clear_old_stock_data", batch |-> {}, row |-> <<>>,
                      keep |-> keep, count |-> DeletedCount(bars, keep),
                      prev |-> PrevCount("clear_old_stock_data", {}, <<>>, keep),
                      before |-> bars]
        /\ UNCHANGED <<quotes, retry, screen, stats, status, cacheChecked, dailyCache, pc, run, calc,
                       runsLeft, faultsLeft, histFaultsLeft>>

\* a caller saves the counts of a day; count = 1: the call returned True
SaveHighLowStats ==
    \E T \in 1..StatDays, c52 \in CountPairs, c26 \in CountPairs :
        /\ pc = "idle"
        /\ stats' = save_high_low_stats(stats, T, c52[1], c52[2], c26[1], c26[2])
        /\ dbcall' = [op |-> "save_high_low_stats", batch |-> {},
                      row |-> <<T, c52[1], c52[2], c26[1], c26[2]>>,
                      keep |-> 0, count |-> 1,
                      prev |-> PrevCount("save_high_low_stats", {},
                                         <<T, c52[1], c52[2], c26[1], c26[2]>>, 0),
                      before |-> stats]
        /\ UNCHANGED <<quotes, retry, screen, bars, status, cacheChecked, dailyCache, pc, run, calc,
                       runsLeft, faultsLeft, histFaultsLeft>>

\* ---------------------------------------------------------------- retry
\* the implementations of get_data_with_retry: the while loop of
\* tushare_utils, the for loop of the copies in analyze_high_low_stocks and
\* new_high_stock_strategy
RetryImpls == {"tushare_utils", "analyze_high_low_stocks", "new_high_stock_strategy"}

\* what one call of the provider function does: it returns data, raises the
\* rate-limit error, raises another error
Responses == {"data", "rate_limit", "error"}

\* no call of get_data_with_retry is in progress
NoRetry == [impl |-> "none", pc |-> "idle", max_tries |-> 0, left |-> 0,
            calls |-> 0, limited |-> 0, failed |-> 0, cooldowns |-> 0,
            result |-> "none", tick |-> FALSE]

\* a counter that stops at MaxCalls
CountUp(n) == IF n < MaxCalls THEN n + 1 ELSE n

\* attempts left after a failed attempt: remaining_tries of tushare_utils
\* is not decremented before its 'continue'; in the copies 'continue' ends
\* an iteration of 'for i in range(max_tries)'
LeftAfter(impl, left, response) ==
    IF impl = "tushare_utils" /\ response = "rate_limit" THEN left ELSE left - 1

\* get_data_with_retry is called: the loop is entered, or left at once
\* when max_tries is 0
RetryCall ==
    \E impl \in RetryImpls, max_tries \in 0..MaxTries :
        /\ retry.pc = "idle"
        /\ retry.impl = "none"
        /\ retry' = [NoRetry EXCEPT !.impl = impl, !.max_tries = max_tries,
                                     !.left = max_tries,
                                     !.pc = IF max_tries > 0 THEN "loop" ELSE "returned",
                                     !.result = IF max_tries > 0 THEN "none" ELSE "empty"]
        /\ UNCHANGED <<quotes, bars, stats, status, cacheChecked, dailyCache, pc, run,
                       calc, runsLeft, faultsLeft, histFaultsLeft, dbcall, screen>>

\* one pass of the loop: the provider function is called; data is returned
\* to the caller; after a failure the loop goes on or, with no attempt left,
\* the empty frame is returned
RetryAttempt ==
    \E response \in Responses :
        /\ retry.pc = "loop"
        /\ LET left == LeftAfter(retry.impl, retry.left, response)
               counted == [retry EXCEPT !.calls = CountUp(@), !.tick = ~ @]
           IN  retry' =
                 IF response = "data"
                 THEN [counted EXCEPT !.pc = "returned", !.result = "data"]
                 ELSE [counted EXCEPT
                         !.left = left,
                         !.limited = IF response = "rate_limit" THEN CountUp(@) ELSE @,
                         !.cooldowns = IF response = "rate_limit" THEN CountUp(@) ELSE @,
                         !.failed = IF response = "error" THEN @ + 1 ELSE @,
                         !.pc = IF left > 0 THEN "loop" ELSE "returned",
                         !.result = IF left > 0 THEN "none" ELSE "empty"]
        /\ UNCHANGED <<quotes, bars, stats, status, cacheChecked, dailyCache, pc, run,
                       calc, runsLeft, faultsLeft, histFaultsLeft, dbcall, screen>>

\* ---------------------------------------------------------------- screening
\* exact fractions <<numerator, denominator>> in lowest terms, denominator > 0
RECURSIVE GCD(_, _)
GCD(a, b) == IF b = 0 THEN a ELSE GCD(b, a % b)

Abs(n) == IF n < 0 THEN 0 - n ELSE n

Rat(n, d) ==
    LET g == GCD(Abs(n), d)
    IN  <<(IF n < 0 THEN 0 - (Abs(n) \div g) ELSE n \div g), d \div g>>

RatAdd(a, b) ==
    LET l == (a[2] \div GCD(a[2], b[2])) * b[2]
    IN  Rat(a[1] * (l \div a[2]) + b[1] * (l \div b[2]), l)

RatNeg(a) == <<0 - a[1], a[2]>>

RatSub(a, b) == RatAdd(a, RatNeg(b))

RatMul(a, b) == Rat(a[1] * b[1], a[2] * b[2])

\* a / b for b # 0
RatDiv(a, b) ==
    IF b[1] > 0 THEN Rat(a[1] * b[2], a[2] * b[1])
    ELSE Rat(0 - a[1] * b[2], a[2] * (0 - b[1]))

RatLt(a, b) == a[1] * b[2] < b[1] * a[2]

RECURSIVE RatSum(_)
RatSum(q) == IF q = <<>> THEN <<0, 1>> ELSE RatAdd(Head(q), RatSum(Tail(q)))

RECURSIVE RatMaxSeq(_)
\* Series.max() of a non-empty column
RatMaxSeq(q) ==
    IF Len(q) = 1 THEN q[1]
    ELSE LET m == RatMaxSeq(Tail(q)) IN IF RatLt(m, q[1]) THEN q[1] ELSE m

RECURSIVE RatMinSeq(_)
\* Series.min() of a non-empty column
RatMinSeq(q) ==
    IF Len(q) = 1 THEN q[1]
    ELSE LET m == RatMinSeq(Tail(q)) IN IF RatLt(q[1], m) THEN q[1] ELSE m

\* df.tail(n)
TailRows(q, n) == IF Len(q) <= n THEN q ELSE SubSeq(q, Len(q) - n + 1, Len(q))

\* the instruments of stock_basic, in its order
ScreenList == <<"X.SH", "Y.SZ">>

ScreenStocks == {ScreenList[i] : i \in 1..Len(ScreenList)}

\* the trading days of the window run_strategy asks for: get_trade_dates of
\* new_high_stock_strategy, every day of the window is a trading day
ScreenDates == 1..ScreenDays

ScreenTradeDates(calOK) == IF calOK THEN [i \in ScreenDates |-> i] ELSE <<>>

\* get_adj_price_data(pro, ts_code, start_date, end_date) on the provider's
\* answers for one instrument: daily = the rows of pro.daily in the order
\* returned, factors = the adj_factor of each of their dates (<<>> when the
\* adj_factor call returns nothing). The frame keeps the provider's order.
get_adj_price_data(daily, factors) ==
    IF daily = <<>> \/ factors = <<>>
    THEN [has_adj |-> FALSE, current_factor |-> 0,
          rows |-> [i \in 1..Len(daily) |->
                      [trade_date |-> daily[i].trade_date,
                       close |-> <<daily[i].close, 1>>, high |-> <<daily[i].high, 1>>,
                       low |-> <<daily[i].low, 1>>,
                       close_adj |-> <<0, 1>>, high_adj |-> <<0, 1>>,
                       low_adj |-> <<0, 1>>]]]
    ELSE LET current_factor == factors[daily[Len(daily)].trade_date]
             adj(i, raw) == Rat(raw * factors[daily[i].trade_date], current_factor)
         IN  [has_adj |-> TRUE, current_factor |-> current_factor,
              rows |-> [i \in 1..Len(daily) |->
                          [trade_date |-> daily[i].trade_date,
                           close |-> <<daily[i].close, 1>>, high |-> <<daily[i].high, 1>>,
                           low |-> <<daily[i].low, 1>>,
                           close_adj |-> adj(i, daily[i].close),
                           high_adj |-> adj(i, daily[i].high),
                           low_adj |-> adj(i, daily[i].low)]]]

RECURSIVE SortRows(_)
\* df.sort_values(by='trade_date'): one row per date
SortRows(rows) ==
    IF rows = <<>> THEN <<>>
    ELSE LET k == CHOOSE i \in 1..Len(rows) :
                    \A j \in 1..Len(rows) : rows[i].trade_date <= rows[j].trade_date
         IN  <<rows[k]>> \o SortRows([i \in 1..(Len(rows) - 1) |->
                                        IF i < k THEN rows[i] ELSE rows[i + 1]])

\* df[col]
Col(rows, col) == [i \in 1..Len(rows) |-> rows[i][col]]

\* prices.rolling(window).mean().dropna()
RollingMean(prices, window) ==
    IF Len(prices) < window THEN <<>>
    ELSE [i \in 1..(Len(prices) - window + 1) |->
            RatDiv(RatSum(SubSeq(prices, i, i + window - 1)), <<window, 1>>)]

\* the sign of the slope of np.polyfit(arange(n), y, 1) is the sign of
\* n * sum(x * y) - sum(x) * sum(y)
SlopeIsPositive(y) ==
    LET n == Len(y)
        sxy == RatSum([i \in 1..n |-> RatMul(<<i - 1, 1>>, y[i])])
        sx == (n * (n - 1)) \div 2
    IN  RatLt(RatMul(<<sx, 1>>, RatSum(y)), RatMul(<<n, 1>>, sxy))

\* prices.pct_change().tail(n) without its NaN: the first row has no change
PctChangeTail(prices, n) ==
    LET first == IF Len(prices) - n + 1 > 2 THEN Len(prices) - n + 1 ELSE 2
    IN  [i \in 1..(Len(prices) - first + 1) |->
            RatSub(RatDiv(prices[first + i - 1], prices[first + i - 2]), <<1, 1>>)]

\* Series.std() < threshold: the sample variance is below threshold squared;
\* std() of fewer than two values is NaN and no comparison with it holds
StdBelow(r, threshold) ==
    /\ Len(r) >= 2
    /\ LET n == Len(r)
           mean == RatDiv(RatSum(r), <<n, 1>>)
           ss == RatSum([i \in 1..n |-> RatMul(RatSub(r[i], mean), RatSub(r[i], mean))])
       IN  RatLt(RatDiv(ss, <<n - 1, 1>>), RatMul(threshold, threshold))

\* is_uptrend(prices, window, volatility_threshold,
\*            recent_volatility_threshold, use_adj) on the sorted frame
is_uptrend(df, window, volatility_threshold, recent_volatility_threshold, use_adj) ==
    LET prices == IF use_adj /\ df.has_adj THEN Col(df.rows, "close_adj")
                  ELSE Col(df.rows, "close")
        recent_ma == TailRows(RollingMean(prices, window), MIN_UPTREND_DAYS)
    IN  /\ Len(prices) >= MIN_UPTREND_DAYS
        /\ Len(recent_ma) >= MIN_UPTREND_DAYS
        /\ SlopeIsPositive(recent_ma)
        /\ StdBelow(PctChangeTail(prices, MIN_UPTREND_DAYS), volatility_threshold)
        /\ StdBelow(PctChangeTail(prices, RecentVolDays), recent_volatility_threshold)

\* calculate_rebound_from_bottom(df, years); period = years * 250
calculate_rebound_from_bottom(df, period) ==
    IF Len(df.rows) < MinReboundBars THEN <<1, 1>>
    ELSE LET close_col == IF df.has_adj THEN "close_adj" ELSE "close"
             high_col == IF df.has_adj THEN "high_adj" ELSE "high"
             low_col == IF df.has_adj THEN "low_adj" ELSE "low"
             recent_df == TailRows(df.rows, period)
             current_price == recent_df[Len(recent_df)][close_col]
             historical_low == RatMinSeq(Col(recent_df, low_col))
             historical_high == RatMaxSeq(Col(recent_df, high_col))
         IN  IF RatLt(historical_low, historical_high)
             THEN RatDiv(RatSub(current_price, historical_low),
                         RatSub(historical_high, historical_low))
             ELSE <<1, 1>>

\* mutant: an instrument at the ceiling is rejected too
AtOrAboveCeiling(rebound_ratio, ceiling) == ~ RatLt(rebound_ratio, ceiling)

\* if rebound_ratio > REBOUND_THRESHOLD: continue
AboveCeiling(rebound_ratio, ceiling) == RatLt(ceiling, rebound_ratio)

\* mutant: only a close above every close of the window passes
BelowOrAtMax(last_close, recent_max_close) == ~ RatLt(recent_max_close, last_close)

\* if last_close < recent_max_close: continue
BelowMax(last_close, recent_max_close) == RatLt(last_close, recent_max_close)

\* mutant: the short-term return is not tested
NeverAboveCap(recent_return) == FALSE

\* if recent_return > RECENT_RETURN_THRESHOLD: continue
AboveCap(recent_return) == RatLt(RECENT_RETURN_THRESHOLD, recent_return)

\* what the loop body did with one instrument: stage = where it left the
\* body, df = the frame get_adj_price_data returned
NoOutcome == [stage |-> "none", df |-> get_adj_price_data(<<>>, <<>>),
              trade_date |-> NoDate, last_close |-> <<0, 1>>, total_mv |-> 0,
              rebound_ratio |-> <<0, 1>>, recent_return |-> <<0, 1>>]

\* the body of the loop of run_strategy for one instrument. input = the
\* provider's answers: daily, factors, and basic, the answer of daily_basic:
\* an empty frame, a malformed one (no total_mv field: the lookup raises) or
\* a row with total_mv
ScreenBody(input, use_adj_price, rebound, last_trade_date) ==
    LET df0 == get_adj_price_data(input.daily, input.factors)
        o0 == [NoOutcome EXCEPT !.df = df0]
    IN  IF Len(df0.rows) < TRADE_DAYS \/ df0.rows = <<>>
        THEN [o0 EXCEPT !.stage = "no_data"]
        ELSE
        LET df == [df0 EXCEPT !.rows = SortRows(@)]
            df_recent == TailRows(df.rows, TRADE_DAYS)
            last_day == df_recent[Len(df_recent)]
            close_col == IF use_adj_price /\ df.has_adj THEN "close_adj" ELSE "close"
            last_close == last_day[close_col]
            recent_max_close == RatMaxSeq(Col(df_recent, close_col))
            o1 == [o0 EXCEPT !.trade_date = last_day.trade_date, !.last_close = last_close]
        IN  IF last_day.trade_date # last_trade_date
            THEN [o0 EXCEPT !.stage = "stale", !.trade_date = last_day.trade_date]
            ELSE IF BelowMax(last_close, recent_max_close)
            THEN [o1 EXCEPT !.stage = "not_high"]
            ELSE IF input.basic.frame = "empty"
            THEN [o1 EXCEPT !.stage = "no_basic"]
            ELSE IF input.basic.frame = "malformed"
            THEN [o1 EXCEPT !.stage = "raised"]
            ELSE IF input.basic.total_mv < MARKET_VALUE_THRESHOLD
            THEN [o1 EXCEPT !.stage = "small", !.total_mv = input.basic.total_mv]
            ELSE
            LET o2 == [o1 EXCEPT !.total_mv = input.basic.total_mv]
            IN  IF ~ is_uptrend(df, MaWindow, Volatility, RecentVolatility, use_adj_price)
                THEN [o2 EXCEPT !.stage = "no_trend"]
                ELSE
                LET rebound_ratio == calculate_rebound_from_bottom(df, HistoryBars)
                    o3 == [o2 EXCEPT !.rebound_ratio = rebound_ratio]
                IN  IF AboveCeiling(rebound_ratio, rebound)
                    THEN [o3 EXCEPT !.stage = "rebound"]
                    ELSE IF Len(df.rows) <= RECENT_DAYS
                    THEN [o3 EXCEPT !.stage = "few_recent"]
                    ELSE
                    LET recent_return ==
                            RatSub(RatDiv(last_close,
                                          df.rows[Len(df.rows) - RECENT_DAYS][close_col]),
                                   <<1, 1>>)
                        o4 == [o3 EXCEPT !.recent_return = recent_return]
                    IN  IF AboveCap(recent_return)
                        THEN [o4 EXCEPT !.stage = "hot"]
                        ELSE [o4 EXCEPT !.stage = "selected"]

\* the dict appended to selected_stocks
SelectedRow(ts_code, o) ==
    [ts_code |-> ts_code, trade_date |-> o.trade_date, last_close |-> o.last_close,
     total_mv |-> o.total_mv, recent_return |-> o.recent_return,
     rebound_ratio |-> o.rebound_ratio]

\* no direct call of calculate_rebound_from_bottom has been made
NoReboundCall == [ts_code |-> "none", df |-> get_adj_price_data(<<>>, <<>>),
                  result |-> <<0, 1>>]

\* no run of run_strategy: the process does no screening
NoScreen == [pc |-> "none"]

\* a process that is about to screen the instruments with these answers of
\* the provider
NewScreen(inputs, use_adj_price, rebound) ==
    [pc |-> "start", inputs |-> inputs, use_adj_price |-> use_adj_price,
     rebound |-> rebound, last_trade_date |-> NoDate, pos |-> 0,
     selected |-> <<>>, outcome |-> [s \in ScreenStocks |-> NoOutcome],
     call |-> NoReboundCall]

\* run_strategy up to its loop. start names the provider call that returns
\* nothing: "list" (stock_basic: the column lookup raises and the run ends
\* with the exception), "calendar" (the empty result is returned)
ScreenStart ==
    \E start \in {"ok", "list", "calendar"} :
        /\ screen.pc = "start"
        /\ screen.call = NoReboundCall
        /\ LET trade_dates == ScreenTradeDates(start # "calendar")
           IN  screen' =
                 IF start = "list" THEN [screen EXCEPT !.pc = "raised"]
                 ELSE IF trade_dates = <<>> THEN [screen EXCEPT !.pc = "done"]
                 ELSE [screen EXCEPT !.pc = "loop", !.pos = 1,
                                     !.last_trade_date = trade_dates[Len(trade_dates)]]
        /\ UNCHANGED <<quotes, bars, stats, status, cacheChecked, dailyCache, pc, run,
                       calc, runsLeft, faultsLeft, histFaultsLeft, dbcall, retry>>

\* one iteration of the loop over stock_list; after the last one the run
\* returns selected_stocks
ScreenStock ==
    /\ screen.pc = "loop"
    /\ \E o \in {ScreenBody(screen.inputs[ScreenList[screen.pos]], screen.use_adj_price,
                            screen.rebound, screen.last_trade_date)} :
        LET ts_code == ScreenList[screen.pos]
        IN  screen' = [screen EXCEPT
                         !.outcome[ts_code] = o,
                         !.selected = IF o.stage = "selected"
                                      THEN Append(@, SelectedRow(ts_code, o)) ELSE @,
                         !.pos = @ + 1,
                         !.pc = IF screen.pos = Len(ScreenList) THEN "done" ELSE "loop"]
    /\ UNCHANGED <<quotes, bars, stats, status, cacheChecked, dailyCache, pc, run,
                   calc, runsLeft, faultsLeft, histFaultsLeft, dbcall, retry>>

\* calculate_rebound_from_bottom called on the sorted frame of an instrument
CalculateReboundFromBottom ==
    \E ts_code \in ScreenStocks :
        /\ screen.pc = "start"
        /\ screen.call = NoReboundCall
        /\ LET df0 == get_adj_price_data(screen.inputs[ts_code].daily,
                                         screen.inputs[ts_code].factors)
               df == [df0 EXCEPT !.rows = SortRows(@)]
           IN  /\ df.rows # <<>>
               /\ screen' = [screen EXCEPT !.call =
                               [ts_code |-> ts_code, df |-> df,
                                result |-> calculate_rebound_from_bottom(df, HistoryBars)]]
        /\ UNCHANGED <<quotes, bars, stats, status, cacheChecked, dailyCache, pc, run,
                       calc, runsLeft, faultsLeft, histFaultsLeft, dbcall, retry>>

\* ---------------------------------------------------------------- the screening inputs
\* a bar: its high is its close or one above, its low its close or one below
BarShapes ==
    {b \in [close : Prices, high : 1..(MaxPrice + 1), low : Prices] :
        b.low <= b.close /\ b.close <= b.high /\ b.high - b.low <= 1}

Plain(b) == b.high = b.close /\ b.low = b.close

\* the price histories over the dates D: at most one bar is not plain
Histories(D) ==
    {h \in [D -> BarShapes] :
        Cardinality({d \in D : ~ Plain(h[d])}) <= 1}

\* pro.daily returns the bars in ascending or in descending order of date
DailyFrames(D) ==
    {[i \in 1..Cardinality(D) |->
        [trade_date |-> IF desc THEN SortedSeq(D)[Cardinality(D) + 1 - i]
                        ELSE SortedSeq(D)[i]] @@
        h[IF desc THEN SortedSeq(D)[Cardinality(D) + 1 - i] ELSE SortedSeq(D)[i]]] :
        h \in Histories(D), desc \in BOOLEAN}

\* the answers of daily_basic
Basic(frame, total_mv) == [frame |-> frame, total_mv |-> total_mv]

\* the adj_factor call returns nothing
NoFactors == [d \in {} |-> 0]

\* pro.adj_factor over the dates D: the factor starts at 1 and never falls
FactorSeries(D) ==
    {f \in [D -> 1..MaxFactor] :
        /\ \A d, e \in D : d <= e => f[d] <= f[e]
        /\ f[MinOf(D)] = 1}

\* the date ranges an instrument has bars on: the whole window, listed one
\* day late, no bar on the last day, listed on the last day
DateRanges == {ScreenDates, ScreenDates \ {1}, ScreenDates \ {ScreenDays}, {ScreenDays}}

\* the answers of the provider for the second instrument
RichInputs ==
    UNION {[daily : DailyFrames(D), factors : FactorSeries(D) \cup {NoFactors},
            basic : {Basic("row", MARKET_VALUE_THRESHOLD - 1),
                     Basic("row", MARKET_VALUE_THRESHOLD)}] : D \in DateRanges}

\* a history that passes every condition at the ceilings 1/2 and 1
RisingDaily ==
    [i \in ScreenDates |->
        [trade_date |-> i, close |-> IF i = 1 THEN 1 ELSE 2,
         high |-> IF i = 1 THEN 1 ELSE IF i = 2 THEN 3 ELSE 2,
         low |-> IF i = 1 THEN 1 ELSE 2]]

\* the answers of the provider for the first instrument: the rising history
\* with every answer of daily_basic, and no bars at all
PlainInputs ==
    [daily : {RisingDaily}, factors : {NoFactors},
     basic : {Basic("empty", 0), Basic("malformed", 0),
              Basic("row", MARKET_VALUE_THRESHOLD)}]
    \cup {[daily |-> <<>>, factors |-> NoFactors, basic |-> Basic("empty", 0)]}

ScreenInputs ==
    {[s \in ScreenStocks |-> IF s = ScreenList[1] THEN x ELSE y] :
        x \in PlainInputs, y \in RichInputs}

\* the screening processes
Screens ==
    {NewScreen(inputs, use_adj_price, rebound) :
        inputs \in ScreenInputs, use_adj_price \in BOOLEAN, rebound \in Ceilings}

\* the closes of B.BJ, listed on day list: no bar before, then a fixed zigzag
ListedCloses(list) ==
    [d \in Dates |-> IF IsOpen(d) /\ d >= list THEN 1 + (d % MaxPrice) ELSE 0]

\* the provider's quotes: closed days have no bar; A.SZ has a bar with any
\* close on every trading day, B.BJ is listed on the first or the second day
QuoteTables ==
    {[s \in Stocks |-> IF s = "A.SZ"
                       THEN [d \in Dates |-> IF IsOpen(d) THEN a[d] ELSE 0]
                       ELSE ListedCloses(list)] :
        a \in [TradeDays -> Prices], list \in 1..2}

\* the state after construction: empty tables, no function attribute set
InitAll(tables, runs, nfaults, nhist, screens) ==
    /\ quotes \in tables
    /\ bars = {}
    /\ stats = {}
    /\ status = EmptyStatus
    /\ cacheChecked = {}
    /\ dailyCache = {}
    /\ pc = "idle"
    /\ run = NoRun
    /\ calc = NoCalcs
    /\ runsLeft = runs
    /\ faultsLeft = nfaults
    /\ histFaultsLeft = nhist
    /\ dbcall = NoCall
    /\ retry = NoRetry
    /\ screen \in screens

\* the same without a screening process
InitWith(tables, runs, nfaults, nhist) == InitAll(tables, runs, nfaults, nhist, {NoScreen})

Next ==
    \/ PrepareHighLowData
    \/ InitialDataLoad
    \/ IncrementalUpdate
    \/ ProcessDay
    \/ FinishRun
    \/ Abort
    \/ Restart

\* ---------------------------------------------------------------- claims
Windows == {"long", "short"}

WeekCount(w) == IF w = "long" THEN LongWeeks ELSE ShortWeeks

\* the stocks a computation counted as new highs, as new lows
CountedHigh(w) == {s \in Stocks : calc[w].eval[s].high}

CountedLow(w) == {s \in Stocks : calc[w].eval[s].low}

FullHistory(s, T, w) == ProviderHistory(s, T - WeekCount(w) * WeekDays, T)

FullBefore(s, T, w) == {b \in FullHistory(s, T, w) : b.trade_date < T}

FullHigh(s, T, w) ==
    /\ quotes[s][T] > 0
    /\ Cardinality(FullHistory(s, T, w)) >= MinHist
    /\ FullBefore(s, T, w) # {}
    /\ \A b \in FullBefore(s, T, w) : quotes[s][T] > b.close

FullLow(s, T, w) ==
    /\ quotes[s][T] > 0
    /\ Cardinality(FullHistory(s, T, w)) >= MinHist
    /\ FullBefore(s, T, w) # {}
    /\ \A b \in FullBefore(s, T, w) : quotes[s][T] < b.close

\* C2 (as claimed): when no provider call of the computation failed, the
\* counts are those obtained from the full history of the provider in the
\* window, whatever the price-bar table held
C2_SameAsFullHistory ==
    \A w \in Windows :
        (calc[w].ok /\ \A s \in Stocks : ~ calc[w].eval[s].failed) =>
            /\ calc[w].high_count =
                  Cardinality({s \in Stocks : FullHigh(s, calc[w].T, w)})
            /\ calc[w].low_count =
                  Cardinality({s \in Stocks : FullLow(s, calc[w].T, w)})

\* C3: no bar of the comparison set is dated T or later, and a stock whose
\* returned history has no bar before T is counted as neither
C3_OwnBarExcluded ==
    \A w \in Windows : \A s \in Stocks :
        LET e == calc[w].eval[s]
        IN  /\ \A b \in e.hist : b.trade_date < calc[w].T
            /\ (e.asked /\ \A b \in e.raw : b.trade_date >= calc[w].T)
               => ~ e.high /\ ~ e.low /\ ~ e.compared
            /\ e.compared => e.hist = {b \in e.raw : b.trade_date # calc[w].T}

\* C3 witness: the returned history held the bar of T, the bar was removed
\* and the stock was compared with the rest and counted
C3_OwnBarRemoved ==
    \E w \in Windows : \E s \in Stocks :
        /\ \E b \in calc[w].eval[s].raw : b.trade_date = calc[w].T
        /\ calc[w].eval[s].compared
        /\ calc[w].eval[s].high

\* C4 (as claimed): a stock with fewer than MinHist bars of the provider
\* strictly before T in the window is counted as neither
C4_FewBarsBeforeExcluded ==
    \A w \in Windows : \A s \in Stocks :
        (calc[w].eval[s].traded
         /\ Cardinality(FullBefore(s, calc[w].T, w)) < MinHist)
        => ~ calc[w].eval[s].high /\ ~ calc[w].eval[s].low

\* C4 (amended): the length is the one of the returned history with the bar
\* of T in it: a stock is compared exactly when that history has at least
\* MinHist bars and one of them is before T; so a stock with MinHist - 1
\* bars before T and its bar of T is not excluded, and one with fewer than
\* MinHist bars of the provider in [T - 7 * W, T] is counted as neither
C4_LengthCountsOwnBar ==
    \A w \in Windows : \A s \in Stocks :
        LET e == calc[w].eval[s]
        IN  /\ e.asked =>
                (e.compared <=> /\ Cardinality(e.raw) >= MinHist
                                /\ \E b \in e.raw : b.trade_date < calc[w].T)
            /\ (e.traded /\ Cardinality(FullHistory(s, calc[w].T, w)) < MinHist)
               => ~ e.high /\ ~ e.low

\* C4 witness: a stock with MinHist - 1 bars before T and its bar of T is
\* counted as a new high
C4_ShortHistoryCounted ==
    \E w \in Windows : \E s \in Stocks :
        /\ calc[w].eval[s].high
        /\ Cardinality(calc[w].eval[s].raw) = MinHist
        /\ Cardinality(calc[w].eval[s].hist) = MinHist - 1

LastOf(q) == q[Len(q)]

\* the trading days D with lo < D <= hi, ascending
DaysAfter(lo, hi) == SortedSeq({d \in TradeDays : lo < d /\ d <= hi})

\* C5: in a run of prepare_high_low_data no step lowers last_update (unset
\* counts as the lowest value), a run that succeeds leaves it at or above its
\* value before the run, and a run that fails leaves it unchanged
C5_WatermarkMonotone ==
    [][(run'.via = "prepare" /\ (pc = "loop" \/ runsLeft' # runsLeft)) =>
          /\ status'.last_update >= status.last_update
          /\ run'.result = "True" => status'.last_update >= run'.preLU
          /\ run'.result = "False" => status'.last_update = run'.preLU]_vars

\* C5 witness: a run of prepare_high_low_data has raised a last_update that
\* was set before it
C5_WatermarkRaised ==
    /\ run.via = "prepare"
    /\ run.result = "True"
    /\ run.preLU # NoDate
    /\ status.last_update > run.preLU

\* C6 (as claimed): after an incremental run is killed with the rows of
\* k >= 1 days written, last_update is the date of the k-th persisted day
C6_WatermarkFollowsRows ==
    (run.kind = "incremental" /\ run.result = "aborted" /\ run.written # <<>>)
    => status.last_update = LastOf(run.written)

\* C6 (amended): last_update is written once, after the loop: while an
\* incremental run is in its loop, and after it is killed there, last_update
\* has its value of before the run; the latest date of the breadth table is
\* the last persisted day, and the days left are the trading days after it
\* up to the end date of the run, the days an incremental run resumed with
\* that end date takes
C6_WatermarkAfterLoop ==
    (run.kind = "incremental" /\ (pc = "loop" \/ run.result = "aborted")) =>
        /\ status.last_update = run.preLU
        /\ run.written # <<>> =>
            /\ get_latest_trade_date_in_db(stats) = LastOf(run.written)
            /\ run.queue = DaysAfter(LastOf(run.written), run.end)
            /\ run.queue = get_trade_dates(ResumeDate(stats), run.end, TRUE)

\* C6 witness: an incremental run was killed after a row was written and
\* before its last day
C6_KilledAfterRow ==
    /\ run.kind = "incremental"
    /\ run.result = "aborted"
    /\ run.written # <<>>
    /\ run.queue # <<>>
    /\ status.last_update < LastOf(run.written)

\* C7 (as claimed): an incremental run that has the calendar and the stock
\* list takes exactly the trading days D with last_update < D <= end_date
C7_DaysAfterWatermark ==
    (run.kind = "incremental" /\ pc = "loop" /\ run.preLU # NoDate) =>
        run.written \o run.queue = DaysAfter(run.preLU, run.end)

\* C7 (amended): the run resumes after the latest date M of the breadth
\* table, not after last_update: the days it has persisted and the days it
\* still has to take are, in ascending order and once each, the trading days
\* D with M < D <= end_date; every persisted day has its row; a run that
\* ends with success after its loop has persisted them all
C7_DaysAfterLatestRow ==
    run.kind = "incremental" =>
        /\ pc = "loop" \/ run.result = "aborted" \/ run.written # <<>> =>
              run.written \o run.queue = DaysAfter(run.base, run.end)
        /\ SeqRange(run.written) \subseteq StatDates(stats)
        /\ run.result = "True" => run.queue = <<>>

\* C7 witness: an incremental run that started with the latest row after
\* last_update has persisted the days after that row
C7_ResumedAfterLatestRow ==
    /\ run.kind = "incremental"
    /\ run.result = "True"
    /\ run.written # <<>>
    /\ run.preLU # NoDate
    /\ run.base > run.preLU

\* C8: a run of prepare_high_low_data or of incremental_update whose end
\* date is the stored last_update leaves the breadth table, the status table
\* and the price-bar table as they are and enters no loop
C8_NoOpWhenUpToDate ==
    [][(/\ pc = "idle"
        /\ runsLeft' # runsLeft
        /\ run'.via \in {"prepare", "incremental"}
        /\ status.last_update # NoDate
        /\ run'.end = status.last_update)
       => /\ stats' = stats
          /\ status' = status
          /\ bars' = bars
          /\ pc' = "idle"]_vars

\* C8 witness: a forced run with end date = last_update, a closed day after
\* the latest row, has asked the calendar and returned without a write while
\* the price-bar table held bars
C8_ForcedRunUpToDate ==
    /\ run.via = "prepare"
    /\ run.force
    /\ run.kind = "incremental"
    /\ run.result = "True"
    /\ run.end = run.preLU
    /\ run.end = status.last_update
    /\ run.base < run.end
    /\ bars # {}

\* C9 (as claimed): a run that finds no resume point (last_update unset at
\* the start of prepare_high_low_data, or no row for incremental_update to
\* resume from) executes initial_data_load
C9_BackfillWhenNoResumePoint ==
    (/\ run.via \in {"prepare", "incremental"}
     /\ \/ run.via = "prepare" /\ run.preLU = NoDate
        \/ run.kind = "incremental" /\ run.base = NoDate)
    => run.kind = "initial"

\* C9 (amended): prepare_high_low_data with last_update unset executes
\* initial_data_load and no incremental pass; incremental_update with an
\* empty breadth table returns failure, writes no row and executes no
\* backfill
C9_BackfillOnlyOnFirstRun ==
    /\ (run.via = "prepare" /\ run.preLU = NoDate) => run.kind = "initial"
    /\ (run.kind = "incremental" /\ run.base = NoDate) =>
          /\ run.result = "False"
          /\ run.written = <<>>
          /\ pc = "idle"

\* C9 witness: a first run of prepare_high_low_data has backfilled
C9_FirstRunBackfilled ==
    /\ run.via = "prepare"
    /\ run.preLU = NoDate
    /\ run.kind = "initial"
    /\ run.result = "True"
    /\ run.written # <<>>

\* C10 (as claimed): after a successful backfill last_update and
\* last_full_update are the date of the last trading day processed, which
\* has a row; likewise last_update after an incremental run that processed
\* days
C10_WatermarkIsLastProcessed ==
    (run.result = "True" /\ run.written # <<>>) =>
        /\ status.last_update = LastOf(run.written)
        /\ run.kind = "initial" => status.last_full_update = LastOf(run.written)
        /\ status.last_update \in StatDates(stats)

\* C10 (amended): both are set to the requested end date, which need not be
\* a trading day: after a successful backfill last_update = last_full_update
\* = end_date, after an incremental run that processed days last_update =
\* end_date; the last processed day is the last trading day at or before
\* end_date and it is the day that has a row
C10_WatermarkIsEndDate ==
    (run.result = "True" /\ run.written # <<>>) =>
        /\ status.last_update = run.end
        /\ run.kind = "initial" => status.last_full_update = run.end
        /\ LastOf(run.written) <= run.end
        /\ \A d \in TradeDays : d <= run.end => d <= LastOf(run.written)
        /\ LastOf(run.written) \in StatDates(stats)

\* C10 witness: a backfill with a closed day as end date has succeeded
C10_BackfillToClosedDay ==
    /\ run.kind = "initial"
    /\ run.result = "True"
    /\ run.written # <<>>
    /\ ~ IsOpen(run.end)
    /\ status.last_update = run.end
    /\ status.last_full_update = run.end

\* C11 (as claimed): when the provider returns no bars for a trading day T
\* of the run (the day's cross-section comes back empty in a computation),
\* no breadth row is persisted for T and last_update stays before T
C11_NoRowForEmptyDay ==
    \A w \in Windows :
        (calc[w].T # NoDate /\ ~ calc[w].ok) =>
            /\ calc[w].T \notin StatDates(stats)
            /\ status.last_update < calc[w].T

\* C12 (as claimed): a run whose calendar call returned nothing is reported
\* as failed, has written no breadth row and has left last_update untouched
C12_CalendarFailureFails ==
    run.fault = "calendar" =>
        /\ run.result = "False"
        /\ run.written = <<>>
        /\ status.last_update = run.preLU

\* C13 (as claimed): a step in which initial_data_load or incremental_update
\* returns failure leaves the price-bar table, the breadth table and the
\* status table as they were
C13_FailureLeavesTables ==
    [][(/\ pc = "idle"
        /\ runsLeft' # runsLeft
        /\ run'.kind \in {"initial", "incremental"}
        /\ run'.result = "False")
       => /\ bars' = bars
          /\ stats' = stats
          /\ status' = status]_vars

SameKey(a, b) == a.ts_code = b.ts_code /\ a.trade_date = b.trade_date

KeyIn(b, db) == \E o \in db : SameKey(o, b)

OneBarPerKey(db) == \A a \in db, b \in db : SameKey(a, b) => a = b

\* C14: a call of save_stock_daily_data with the batch of the call just
\* before it leaves the price-bar table as that call left it and returns 0
C14_SaveTwiceSameAsOnce ==
    [][(dbcall'.op = "save_stock_daily_data" /\ dbcall'.prev >= 0)
       => /\ bars' = bars
          /\ dbcall'.count = 0]_vars

\* C14 witness: a batch that added rows was saved again and added nothing
C14_SecondSaveAddedNothing ==
    /\ dbcall.op = "save_stock_daily_data"
    /\ dbcall.prev > 0
    /\ dbcall.count = 0
    /\ dbcall.batch \subseteq bars
    /\ bars = dbcall.before

C16_OneRowPerDate ==
    dbcall.op = "save_high_low_stats" =>
        LET r == dbcall.row
        IN  /\ {x \in stats : x.trade_date = r[1]} =
                  {[trade_date |-> r[1],
                    high_count_52w |-> r[2], low_count_52w |-> r[3],
                    net_high_52w |-> r[2] - r[3],
                    high_count_26w |-> r[4], low_count_26w |-> r[5],
                    net_high_26w |-> r[4] - r[5]]}
            /\ {x \in stats : x.trade_date # r[1]} =
                  {x \in dbcall.before : x.trade_date # r[1]}
            /\ \A x \in stats, y \in stats : x.trade_date = y.trade_date => x = y
            /\ \A x \in stats :
                  /\ x.net_high_52w = x.high_count_52w - x.low_count_52w
                  /\ x.net_high_26w = x.high_count_26w - x.low_count_26w

\* C16 witness: a date was saved again with other counts, next to the row
\* of another date
C16_RowOverwritten ==
    /\ dbcall.op = "save_high_low_stats"
    /\ \E x \in dbcall.before : x.trade_date = dbcall.row[1] /\ x \notin stats
    /\ Cardinality(stats) = StatDays
    /\ Cardinality(dbcall.before) = StatDays

\* the n most recent distinct trade dates of a table
MostRecentDates(db, n) ==
    {d \in BarDates(db) : Cardinality({x \in BarDates(db) : x > d}) < n}

C18_PruneKeepsLongWindow ==
    [][(pc = "loop" /\ run'.pruned /\ ~ run.pruned) =>
          \A b \in bars :
              (run.end - LongWeeks * WeekDays <= b.trade_date /\ b.trade_date <= run.end)
              => b \in bars']_vars

\* C19: the prune is invoked by a run only once its loop has taken every
\* day, when the row of every day of the run is in the breadth table, and
\* the run then returns success; a run that has pruned deletes no bar
\* afterwards; a run that failed, was killed or processed no day has not
\* pruned; bars leave the table only in a prune or when a run starts (the
\* rebuild)
C19_PruneAfterAllDays ==
    [][/\ (run'.pruned /\ ~ run.pruned) =>
            /\ pc = "loop"
            /\ run.queue = <<>>
            /\ run'.written = run.written
            /\ run.written # <<>>
            /\ run.kind = "incremental" => run.written = DaysAfter(run.base, run.end)
            /\ SeqRange(run.written) \subseteq StatDates(stats)
            /\ stats' = stats
            /\ run'.result = "True"
       /\ (run.pruned /\ runsLeft' = runsLeft) => bars' = bars
       /\ (run'.result \in {"False", "aborted"} \/ run'.written = <<>>) =>
            ~ run'.pruned /\ run'.deleted = 0
       /\ (\E b \in bars : b \notin bars') =>
            (run'.pruned /\ ~ run.pruned) \/ runsLeft' # runsLeft]_vars

\* C19 witness: a run of two days or more has pruned bars after its last day
C19_PrunedAfterLastDay ==
    /\ run.pruned
    /\ run.deleted > 0
    /\ Len(run.written) >= 2
    /\ run.result = "True"

\* C20 (as claimed): the history a computation compares a stock with holds
\* the stock's bar of every earlier trading day of the window on which it
\* traded
C20_HistoryHasEarlierDays ==
    \A w \in Windows, s \in Stocks :
        calc[w].eval[s].compared =>
            \A d \in TradeDays :
                (calc[w].start_date <= d /\ d < calc[w].T /\ quotes[s][d] > 0)
                => \E b \in calc[w].eval[s].hist : b.trade_date = d

\* C21 (as claimed): in every implementation a rate-limit error takes the
\* cooldown and no attempt of the budget: the attempts left are max_tries
\* minus the failures that were not rate-limit errors, so that empty is
\* returned only after max_tries such failures
C21_RateLimitKeepsBudget ==
    retry.impl # "none" =>
        /\ retry.left = retry.max_tries - retry.failed
        /\ retry.cooldowns = retry.limited
        /\ retry.result = "empty" => retry.failed = retry.max_tries

\* C22 (as claimed): every call of get_data_with_retry returns
C22_EveryCallReturns == (retry.pc = "loop") ~> (retry.pc = "returned")

\* ---- screening
\* the loop of run_strategy has dealt with instrument s
Screened(s) == screen.pc \in {"loop", "done"} /\ screen.outcome[s].stage # "none"

\* the dates of the bars the provider returned for s
BarDatesOf(s) ==
    {screen.inputs[s].daily[i].trade_date : i \in 1..Len(screen.inputs[s].daily)}

LatestBarDate(s) == MaxOf(BarDatesOf(s))

\* the bar of s dated d
BarOf(s, d) ==
    LET daily == screen.inputs[s].daily
    IN  daily[CHOOSE i \in 1..Len(daily) : daily[i].trade_date = d]

\* the compared closes are the adjusted ones
ComparesAdjusted(s) == screen.use_adj_price /\ screen.inputs[s].factors # NoFactors

\* the close of s on d in the compared column, times the base factor
CloseTimesBase(s, d) ==
    IF ComparesAdjusted(s) THEN BarOf(s, d).close * screen.inputs[s].factors[d]
    ELSE BarOf(s, d).close

\* the dates of the trailing window of trade_days bars
WindowDates(s) ==
    {d \in BarDatesOf(s) : Cardinality({e \in BarDatesOf(s) : e > d}) < TRADE_DAYS}

\* the latest close is at least every close of the window
AtLeastEveryClose(s) ==
    \A d \in WindowDates(s) : CloseTimesBase(s, LatestBarDate(s)) >= CloseTimesBase(s, d)

\* C24: an instrument that reaches the new-high test passes it exactly when
\* its latest close is at least every close of the trailing trade_days
\* window, ties included
C24_NewHighIffAtLeastMax ==
    \A s \in ScreenStocks :
        (Screened(s) /\ screen.outcome[s].stage \notin {"no_data", "stale"})
            => (screen.outcome[s].stage # "not_high" <=> AtLeastEveryClose(s))

\* C24 witness: an instrument whose latest close equals an earlier close of
\* the window, and is below none, has passed the new-high test
C24_TiePasses ==
    \E s \in ScreenStocks :
        /\ Screened(s)
        /\ screen.outcome[s].stage \notin {"no_data", "stale", "not_high"}
        /\ \E d \in WindowDates(s) :
              /\ d # LatestBarDate(s)
              /\ CloseTimesBase(s, d) = CloseTimesBase(s, LatestBarDate(s))

\* the sorted frame the conditions of s are computed on
FrameOf(s) ==
    LET df0 == get_adj_price_data(screen.inputs[s].daily, screen.inputs[s].factors)
    IN  [df0 EXCEPT !.rows = SortRows(@)]

\* the short-term return of s, for a frame of more than RECENT_DAYS bars
ReturnOf(s) ==
    LET rows == FrameOf(s).rows
        col == IF ComparesAdjusted(s) THEN "close_adj" ELSE "close"
    IN  RatSub(RatDiv(rows[Len(rows)][col], rows[Len(rows) - RECENT_DAYS][col]), <<1, 1>>)

\* s has at least trade_days bars, its latest bar is dated the last trading
\* day and it passes the five conditions
Qualifies(s) ==
    /\ Len(screen.inputs[s].daily) >= TRADE_DAYS
    /\ Len(screen.inputs[s].daily) > RECENT_DAYS
    /\ LatestBarDate(s) = screen.last_trade_date
    /\ AtLeastEveryClose(s)
    /\ screen.inputs[s].basic.frame = "row"
    /\ screen.inputs[s].basic.total_mv >= MARKET_VALUE_THRESHOLD
    /\ is_uptrend(FrameOf(s), MaWindow, Volatility, RecentVolatility, screen.use_adj_price)
    /\ ~ RatLt(screen.rebound, calculate_rebound_from_bottom(FrameOf(s), HistoryBars))
    /\ ~ RatLt(RECENT_RETURN_THRESHOLD, ReturnOf(s))

\* C23: when run_strategy returns from its loop, selected_stocks holds, in
\* the order of the instrument list and once each, exactly the instruments
\* with at least trade_days bars, a latest bar on the last trading day and
\* all five conditions passed
C23_SelectedIffAllConditions ==
    (screen.pc = "done" /\ screen.last_trade_date # NoDate)
        => [i \in 1..Len(screen.selected) |-> screen.selected[i].ts_code]
               = SelectSeq(ScreenList, Qualifies)

\* C23 witness: a finished run selected the first instrument and dropped
\* the second one for its short-term return alone
C23_OneSelectedOneTooHot ==
    /\ screen.pc = "done"
    /\ Len(screen.selected) = 1
    /\ screen.selected[1].ts_code = ScreenList[1]
    /\ screen.outcome[ScreenList[2]].stage = "hot"

\* C26 (as claimed): the base factor of an adjusted frame is the factor of
\* the bar with the greatest trade_date, whatever the order of the rows
C26_BaseIsLatestFactor ==
    \A s \in ScreenStocks :
        (Screened(s) /\ screen.outcome[s].df.has_adj)
            => screen.outcome[s].df.current_factor
                   = screen.inputs[s].factors[LatestBarDate(s)]

\* the selected list of a run on the same inputs with every adjustment
\* factor equal to 1
RECURSIVE SelectedWithoutEvents(_)
SelectedWithoutEvents(i) ==
    IF i = 0 THEN <<>>
    ELSE LET ts_code == ScreenList[i]
             input == screen.inputs[ts_code]
             o == ScreenBody([input EXCEPT !.factors =
                                 IF @ = NoFactors THEN @
                                 ELSE [d \in DOMAIN @ |-> 1]],
                             screen.use_adj_price, screen.rebound, screen.last_trade_date)
         IN  IF o.stage = "selected"
             THEN Append(SelectedWithoutEvents(i - 1), SelectedRow(ts_code, o))
             ELSE SelectedWithoutEvents(i - 1)

\* C30 (as claimed): with use_adj_price = False the selected list, with its
\* last_close, recent_return and rebound_ratio, is the one of the run whose
\* inputs differ in the adjustment factors only
C30_FactorsDoNotMatter ==
    (screen.pc = "done" /\ screen.last_trade_date # NoDate /\ ~ screen.use_adj_price)
        => screen.selected = SelectedWithoutEvents(Len(ScreenList))

\* the frame, the current price and the extremes of the direct call
CallRows == TailRows(screen.call.df.rows, HistoryBars)

CallColumn(col) ==
    Col(CallRows, IF screen.call.df.has_adj THEN col \o "_adj" ELSE col)

CallCurrent == CallColumn("close")[Len(CallRows)]

CallLow == RatMinSeq(CallColumn("low"))

CallHigh == RatMaxSeq(CallColumn("high"))

CalledRebound == screen.pc = "start" /\ screen.call.ts_code # "none"

\* C25 (as claimed): calculate_rebound_from_bottom returns 1.0 at the
\* historical high and 0.0 at the historical low
C25_OneAtHighZeroAtLow ==
    CalledRebound =>
        /\ CallCurrent = CallHigh => screen.call.result = <<1, 1>>
        /\ CallCurrent = CallLow => screen.call.result = <<0, 1>>

\* the filter applied to the rebound position of s left the loop body
ReboundTested(s) ==
    Screened(s) /\ screen.outcome[s].stage \in {"rebound", "few_recent", "hot", "selected"}

\* C25 (amended): on at least MinReboundBars bars whose historical high is
\* above the historical low, calculate_rebound_from_bottom returns 1.0 at
\* the high and 0.0 at the low; on fewer bars, or when high and low
\* coincide, it returns 1.0; the filter rejects a position exactly when it
\* is above the ceiling, so 1.0 is rejected by every ceiling below 1.0 and
\* 0.0 by none
C25_ReboundPosition ==
    /\ CalledRebound =>
          IF Len(screen.call.df.rows) >= MinReboundBars /\ RatLt(CallLow, CallHigh)
          THEN /\ CallCurrent = CallHigh => screen.call.result = <<1, 1>>
               /\ CallCurrent = CallLow => screen.call.result = <<0, 1>>
          ELSE screen.call.result = <<1, 1>>
    /\ \A s \in ScreenStocks :
          ReboundTested(s) =>
              (screen.outcome[s].stage = "rebound"
                  <=> RatLt(screen.rebound, screen.outcome[s].rebound_ratio))

\* C25 witness: a direct call returned 0.0 for a frame at its historical
\* low, below its historical high
C25_ZeroAtLow ==
    /\ CalledRebound
    /\ Len(screen.call.df.rows) >= MinReboundBars
    /\ RatLt(CallLow, CallHigh)
    /\ CallCurrent = CallLow
    /\ screen.call.result = <<0, 1>>

\* the loop over the stocks as it starts on the tables db and the marks cc
Acc0(db, cc) ==
    [db |-> db, cc |-> cc, nfail |-> 0, high_count |-> 0, low_count |-> 0,
     eval |-> [s \in Stocks |-> NoEval]]

\* the long and the short evaluation of stock s on day T when s is the
\* only stock of the list, started on the tables of the current state
AloneLong(s, T) ==
    StockStep(Acc0(bars, cacheChecked), T, T - LongWeeks * WeekDays, s,
              ProviderDaily(T), TRUE)

AloneShort(s, T) ==
    StockStep(Acc0(AloneLong(s, T).db, AloneLong(s, T).cc), T,
              T - ShortWeeks * WeekDays, s, ProviderDaily(T), TRUE)

\* a day of a run is processed in this step
DayProcessed == pc = "loop" /\ run'.written # run.written

\* the rows of selected_stocks for instrument s
SelectedRowsOf(s) == SelectSeq(screen.selected, LAMBDA r : r.ts_code = s)

\* what the loop body of run_strategy does with s when s is alone in the list
AloneOutcome(s) ==
    ScreenBody(screen.inputs[s], screen.use_adj_price, screen.rebound,
               screen.last_trade_date)

\* C27, breadth: when a day is processed and its cross-section is there,
\* the loop reaches every stock traded that day, the row of the day is
\* saved with the counts of the stocks found at a high or low, and a stock
\* whose own history calls did not fail is evaluated, in both windows, as
\* it is when it is alone in the list
C27_BreadthGoesOn ==
    DayProcessed =>
        LET T == Head(run.queue)
            long == calc'.long
            short == calc'.short
        IN  (long.ok /\ short.ok) =>
              /\ \A s \in Stocks :
                    (\E b \in ProviderDaily(T) : b.ts_code = s)
                        => long.eval[s].asked /\ short.eval[s].asked
              /\ StatRow(T, Cardinality({s \in Stocks : long.eval[s].high}),
                           Cardinality({s \in Stocks : long.eval[s].low}),
                           Cardinality({s \in Stocks : short.eval[s].high}),
                           Cardinality({s \in Stocks : short.eval[s].low})) \in stats'
              /\ \A s \in Stocks :
                    (~ long.eval[s].failed /\ ~ short.eval[s].failed)
                        => /\ long.eval[s] = AloneLong(s, T).eval[s]
                           /\ short.eval[s] = AloneShort(s, T).eval[s]

\* C27, screening: an instrument whose calls fail does not end the loop,
\* and when the loop is left every instrument has been dealt with and has,
\* in selected_stocks, what it has when it is alone in the list
C27_ScreeningGoesOn ==
    /\ screen.pc = "loop" =>
          \A i \in 1..(screen.pos - 1) : screen.outcome[ScreenList[i]].stage # "none"
    /\ (screen.pc = "done" /\ screen.last_trade_date # NoDate) =>
          \A s \in ScreenStocks :
              /\ screen.outcome[s].stage # "none"
              /\ SelectedRowsOf(s) =
                    IF AloneOutcome(s).stage = "selected"
                    THEN <<SelectedRow(s, AloneOutcome(s))>> ELSE <<>>

\* C27: a failure while one instrument is processed does not abort the
\* batch, and every other instrument comes out as if the failing one were
\* not in the list
C27_FailureSkipsOneInstrument ==
    [][C27_BreadthGoesOn]_vars /\ [](C27_ScreeningGoesOn)

\* C27 witness: the history call of one stock failed while the other stock
\* was compared, and a screening run that lost an instrument to an
\* exception selected the other one
C27_OneFailedOthersEvaluated ==
    /\ calc.long.ok
    /\ \E s, t \in Stocks : /\ s # t
                             /\ calc.long.eval[s].failed
                             /\ calc.long.eval[t].compared
    /\ screen.pc = "done"
    /\ \E s, t \in ScreenStocks : /\ screen.outcome[s].stage = "raised"
                                   /\ SelectedRowsOf(t) # <<>>

\* the n most recent trading days of the calendar on or before end
RecentOpenDays(end, n) ==
    {d \in OpenDays : d <= end /\ Cardinality({x \in OpenDays : d < x /\ x <= end}) < n}

\* C28 (as claimed): a first run of prepare_high_low_data(end_date, days)
\* that returns True has computed breadth for the max(days, minimum) most
\* recent trading days ending at end_date, for all of them when the
\* calendar has fewer
C28_BackfillCoversDays ==
    (/\ run.via = "prepare"
     /\ run.preLU = NoDate
     /\ run.result = "True")
        => SeqRange(run.written) = RecentOpenDays(run.end, Max2(BackfillDays, MinBackfill))

\* C29 (as claimed): in every row of the statistics table the long-window
\* counts are at most the short-window counts of the same day
C29_LongCountsAtMostShort ==
    \A r \in stats : /\ r.high_count_52w <= r.high_count_26w
                     /\ r.low_count_52w <= r.low_count_26w

\* the controller: one quote table, MaxRuns runs
ControllerQuotes ==
    {[s \in Stocks |-> IF s = "A.SZ" THEN ListedCloses(1) ELSE ListedCloses(2)]}

Init == InitWith(ControllerQuotes, MaxRuns, MaxFaults, 0)

Spec == Init /\ [][Next]_vars

\* runs of prepare_high_low_data that are not killed
NextBreadth ==
    \/ PrepareHighLowData
    \/ ProcessDay
    \/ FinishRun
    \/ Restart

\* the breadth computation: every quote table, BreadthRuns runs
InitBreadth == InitWith(QuoteTables, BreadthRuns, MaxFaults, MaxHistFaults)

SpecBreadth == InitBreadth /\ [][NextBreadth]_vars

\* the price-bar table under direct calls of db_utils: no run is started
NextBars ==
    \/ SaveStockDailyData
    \/ ClearOldStockData

InitStore == InitWith(ControllerQuotes, 0, 0, 0)

SpecBars == InitStore /\ [][NextBars]_vars

\* get_data_with_retry under every sequence of provider responses; the loop
\* keeps running while it is not left
NextRetry ==
    \/ RetryCall
    \/ RetryAttempt

SpecRetry == InitStore /\ [][NextRetry]_vars /\ WF_vars(RetryAttempt)

\* first runs of prepare_high_low_data over the whole calendar
NextBackfill ==
    \/ PrepareLongBackfill
    \/ ProcessDay
    \/ FinishRun

InitBackfill == InitWith(ControllerQuotes, MaxRuns, 0, 0)

SpecBackfill == InitBackfill /\ [][NextBackfill]_vars

\* run_strategy, or one direct call of calculate_rebound_from_bottom, on
\* every screening input
NextScreen ==
    \/ ScreenStart
    \/ ScreenStock
    \/ CalculateReboundFromBottom

InitScreen == InitAll(ControllerQuotes, 0, 0, 0, Screens)

SpecScreen == InitScreen /\ [][NextScreen]_vars

\* a breadth run and a screening run in which calls for single instruments
\* fail
BatchScreens ==
    {NewScreen(inputs, TRUE, <<1, 2>>) : inputs \in [ScreenStocks -> PlainInputs]}

NextBatch ==
    \/ PrepareHighLowData
    \/ ProcessDay
    \/ FinishRun
    \/ ScreenStart
    \/ ScreenStock

InitBatch == InitAll(ControllerQuotes, 1, 0, MaxHistFaults, BatchScreens)

SpecBatch == InitBatch /\ [][NextBatch]_vars

\* the breadth table under direct calls of save_high_low_stats
NextStats == SaveHighLowStats

SpecStats == InitStore /\ [][NextStats]_vars

====
